---- MODULE Spec2Model ----
(***************************************************************************)
(* Model of parseNumber (simdjson-go, parse_number.go): the byte           *)
(* classifier table isNumberRune, the scan loop, the integer / unsigned /  *)
(* float resolution and the encoding of the result as a (tag word, value   *)
(* word) pair.                                                             *)
(*                                                                         *)
(* Bytes are the integers 0..255.  A 64-bit word (and every intermediate   *)
(* big number of the decimal conversions) is a little-endian sequence of   *)
(* 16-bit limbs, so that every product of two limbs stays below 2^31; a    *)
(* uint64 is exactly four limbs, limb 1 the least significant.             *)
(***************************************************************************)
EXTENDS Integers, Sequences, FiniteSets

\* ------------------------------------------------------------------ bytes
Ch0 == 48
Ch1 == 49
Ch2 == 50
Ch3 == 51
Ch4 == 52
Ch5 == 53
Ch6 == 54
Ch7 == 55
Ch8 == 56
Ch9 == 57
ChDot == 46
ChPlus == 43
ChMinus == 45
Che == 101
ChE == 69
ChComma == 44
ChRBrace == 125
ChRBracket == 93
ChSpace == 32
ChTab == 9
ChCR == 13
ChLF == 10
ChColon == 58

\* ------------------------------------------------------------------ flags
isPartOfNumberFlag == 1
isFloatOnlyFlag == 2
isMinusFlag == 4
isEOVFlag == 8
isDigitFlag == 16
isMustHaveDigitNext == 32

\* Go's & and | on the uint8 flag sets.
RECURSIVE BitAnd(_, _)
BitAnd(a, b) ==
    IF a = 0 \/ b = 0 THEN 0
    ELSE (a % 2) * (b % 2) + 2 * BitAnd(a \div 2, b \div 2)

RECURSIVE BitOr(_, _)
BitOr(a, b) ==
    IF a = 0 THEN b
    ELSE IF b = 0 THEN a
    ELSE (IF a % 2 = 1 \/ b % 2 = 1 THEN 1 ELSE 0) + 2 * BitOr(a \div 2, b \div 2)

\* The 256-entry table; every byte not listed is 0.
isNumberRune(v) ==
    IF v \in Ch0..Ch9 THEN isPartOfNumberFlag + isDigitFlag
    ELSE IF v = ChDot THEN isPartOfNumberFlag + isFloatOnlyFlag + isMustHaveDigitNext
    ELSE IF v = ChPlus THEN isPartOfNumberFlag
    ELSE IF v = ChMinus THEN isPartOfNumberFlag + isMinusFlag + isMustHaveDigitNext
    ELSE IF v \in {Che, ChE} THEN isPartOfNumberFlag + isFloatOnlyFlag
    ELSE IF v \in {ChComma, ChRBrace, ChRBracket, ChSpace, ChTab, ChCR, ChLF, ChColon}
         THEN isEOVFlag
    ELSE 0

\* ------------------------------------------------------------- big numbers
\* Little-endian limbs in base 2^16, no most-significant zero limb; 0 is <<>>.
LimbBits == 16
LimbBase == 65536

Pow2(k) == CASE k = 0 -> 1 [] k = 1 -> 2 [] k = 2 -> 4 [] k = 3 -> 8
             [] k = 4 -> 16 [] k = 5 -> 32 [] k = 6 -> 64 [] k = 7 -> 128
             [] k = 8 -> 256 [] k = 9 -> 512 [] k = 10 -> 1024 [] k = 11 -> 2048
             [] k = 12 -> 4096 [] k = 13 -> 8192 [] k = 14 -> 16384 [] k = 15 -> 32768

\* Smallest element of a non-empty set of integers.
Min(S) == CHOOSE x \in S : \A y \in S : x <= y

\* a without its most-significant zero limbs.
Trim(a) ==
    LET nz == {i \in 1..Len(a) : a[i] /= 0 /\ \A j \in (i + 1)..Len(a) : a[j] = 0}
    IN  IF nz = {} THEN <<>> ELSE SubSeq(a, 1, Min(nz))

\* Limbs lo..hi of a * m + c, and the carry out of limb hi; the range is
\* halved so that the nesting stays logarithmic in its length.
RECURSIVE MulAddRange(_, _, _, _, _)
MulAddRange(a, m, c, lo, hi) ==
    IF lo > hi THEN [out |-> <<>>, c |-> c]
    ELSE IF lo = hi
    THEN LET t == a[lo] * m + c
         IN  [out |-> <<t % LimbBase>>, c |-> t \div LimbBase]
    ELSE LET mid == (lo + hi) \div 2
             l == MulAddRange(a, m, c, lo, mid)
             r == MulAddRange(a, m, l.c, mid + 1, hi)
         IN  [out |-> l.out \o r.out, c |-> r.c]

\* a * m + c, for 1 <= m <= 2^15 and 0 <= c < 2^15.
MulAdd(a, m, c) ==
    LET r == MulAddRange(a, m, c, 1, Len(a))
    IN  IF r.c = 0 THEN r.out ELSE Append(r.out, r.c)

\* -1, 0, 1 as a < b, a = b, a > b on limbs lo..hi, the high limbs first.
RECURSIVE CmpRange(_, _, _, _)
CmpRange(a, b, lo, hi) ==
    IF lo > hi THEN 0
    ELSE IF lo = hi
    THEN (IF a[lo] < b[lo] THEN -1 ELSE IF a[lo] > b[lo] THEN 1 ELSE 0)
    ELSE LET mid == (lo + hi) \div 2
             h == CmpRange(a, b, mid + 1, hi)
         IN  IF h /= 0 THEN h ELSE CmpRange(a, b, lo, mid)

Cmp(a, b) ==
    IF Len(a) < Len(b) THEN -1
    ELSE IF Len(a) > Len(b) THEN 1
    ELSE CmpRange(a, b, 1, Len(a))

\* Limbs lo..hi of a - b with a borrow in, and the borrow out.
RECURSIVE SubRange(_, _, _, _, _)
SubRange(a, b, borrow, lo, hi) ==
    IF lo > hi THEN [out |-> <<>>, c |-> borrow]
    ELSE IF lo = hi
    THEN LET t == a[lo] - (IF lo <= Len(b) THEN b[lo] ELSE 0) - borrow
         IN  IF t < 0 THEN [out |-> <<t + LimbBase>>, c |-> 1]
             ELSE [out |-> <<t>>, c |-> 0]
    ELSE LET mid == (lo + hi) \div 2
             l == SubRange(a, b, borrow, lo, mid)
             r == SubRange(a, b, l.c, mid + 1, hi)
         IN  [out |-> l.out \o r.out, c |-> r.c]

\* a - b, for a >= b.
Sub(a, b) == Trim(SubRange(a, b, 0, 1, Len(a)).out)

\* a * 2^k.
Shl(a, k) ==
    IF a = <<>> THEN a
    ELSE [i \in 1..(k \div LimbBits) |-> 0] \o MulAdd(a, Pow2(k % LimbBits), 0)

RECURSIVE BitLenLimb(_)
BitLenLimb(x) == IF x = 0 THEN 0 ELSE 1 + BitLenLimb(x \div 2)

\* Number of significant bits of a; 0 for 0.
BitLen(a) ==
    IF a = <<>> THEN 0 ELSE LimbBits * (Len(a) - 1) + BitLenLimb(a[Len(a)])

\* The four limbs of a value below 2^64.
U64(a) == [i \in 1..4 |-> IF i <= Len(a) THEN a[i] ELSE 0]

ZeroWord == U64(<<>>)
\* ------------------------------------------------------------ tape constants
\* Tag values and offsets of the tape format shared with the tokenizer.
JSONTAGOFFSET == 56
TagInteger == 108
TagUint == 117
TagFloat == 100
FloatOverflowedInteger == 1

\* Mutant of TagWord: the shift to the tag's byte forgotten.
TagWordNoShift(tag) == U64(<<tag>>)

\* uint64(tag) << JSONTAGOFFSET
TagWord(tag) == U64(Shl(<<tag>>, JSONTAGOFFSET))

\* w | uint64(flag), for a flag below 2^16
OrFlag(w, flag) == [w EXCEPT ![1] = BitOr(w[1], flag)]

\* ---------------------------------------------------------------- strconv
IsDigit(c) == c \in Ch0..Ch9

MaxUint64 == <<65535, 65535, 65535, 65535>>
\* 1 << 63
Cutoff63 == <<0, 0, 0, 32768>>

\* strconv.ParseUint(s, 10, 64): digits only; the first digit that takes the
\* value past 2^64-1 ends the parse with ErrRange.
RECURSIVE ParseUintFrom(_, _, _)
ParseUintFrom(s, i, n) ==
    IF i > Len(s) THEN [err |-> "nil", n |-> n]
    ELSE IF ~IsDigit(s[i]) THEN [err |-> "syntax", n |-> <<>>]
    ELSE LET n1 == MulAdd(n, 10, s[i] - Ch0)
         IN  IF Cmp(n1, MaxUint64) > 0 THEN [err |-> "range", n |-> MaxUint64]
             ELSE ParseUintFrom(s, i + 1, n1)

ParseUint(s) ==
    IF s = <<>> THEN [err |-> "syntax", n |-> <<>>]
    ELSE ParseUintFrom(s, 1, <<>>)

\* 2^64 - a for 0 < a <= 2^63: the two's-complement pattern of -a.
Neg64(a) == IF a = <<>> THEN a ELSE Sub(<<0, 0, 0, 0, 1>>, a)

\* What ParseInt makes of the magnitude u that ParseUint read: the magnitude
\* must fit the signed range; n is uint64(result).
SignedResult(neg, u) ==
    IF u.err = "syntax" THEN u
    ELSE IF u.err = "range" THEN [err |-> "range", n |-> <<>>]
    ELSE IF ~neg /\ Cmp(u.n, Cutoff63) >= 0 THEN [err |-> "range", n |-> <<>>]
    ELSE IF neg /\ Cmp(u.n, Cutoff63) > 0 THEN [err |-> "range", n |-> <<>>]
    ELSE [err |-> "nil", n |-> IF neg THEN Neg64(u.n) ELSE u.n]

\* Mutant of ParseInt: the sign is dropped from the result.
ParseIntSignDropped(s) ==
    IF s = <<>> THEN [err |-> "syntax", n |-> <<>>]
    ELSE SignedResult(FALSE,
             ParseUint(IF s[1] \in {ChPlus, ChMinus} THEN SubSeq(s, 2, Len(s)) ELSE s))

\* strconv.ParseInt(s, 10, 64): optional '+' or '-', then ParseUint.
ParseInt(s) ==
    IF s = <<>> THEN [err |-> "syntax", n |-> <<>>]
    ELSE SignedResult(s[1] = ChMinus,
             ParseUint(IF s[1] \in {ChPlus, ChMinus} THEN SubSeq(s, 2, Len(s)) ELSE s))

\* First index >= i of s that holds no digit (Len(s) + 1 if there is none).
SkipDigits(s, i) ==
    Min({j \in i..Len(s) : ~IsDigit(s[j])} \cup {Len(s) + 1})

\* The exponent digits s[i..j-1] as readFloat accumulates them: a digit is
\* only added while the running value is below 10000.
ExpCap == 10000

RECURSIVE ExpValue(_, _, _, _)
ExpValue(s, i, j, e) ==
    IF i >= j \/ e >= ExpCap THEN e
    ELSE ExpValue(s, i + 1, j, e * 10 + (s[i] - Ch0))

\* The decimal digits s[i..j-1] as a big number, continuing from n; the
\* range is halved so that the nesting stays logarithmic in its length.
RECURSIVE DigitsToBig(_, _, _, _)
RECURSIVE DigitsToBigRest(_, _, _, _)
DigitsToBig(s, i, j, n) ==
    IF i >= j THEN n
    ELSE IF j = i + 1 THEN MulAdd(n, 10, s[i] - Ch0)
    ELSE DigitsToBigRest(s, (i + j) \div 2, j, DigitsToBig(s, i, (i + j) \div 2, n))

\* The digits s[i..j-1] after the first half has given n; n is looked at
\* before the second half is entered, so the halves are computed in turn.
DigitsToBigRest(s, i, j, n) ==
    IF n = <<>> THEN DigitsToBig(s, i, j, <<>>) ELSE DigitsToBig(s, i, j, n)

\* First index >= i of s[i..j-1] that holds a non-zero digit (j if none).
SkipZeros(s, i, j) ==
    Min({k \in i..(j - 1) : s[k] /= Ch0} \cup {j})

\* a * 10^n
RECURSIVE MulAddPow10(_, _)
MulAddPow10(a, n) ==
    IF a = <<>> \/ n = 0 THEN a
    ELSE IF n = 1 THEN MulAdd(a, 10, 0)
    ELSE MulAddPow10(MulAddPow10(a, n \div 2), n - n \div 2)

Pow10(n) == MulAddPow10(<<1>>, n)

\* Number of digits of the mantissa s[i1..i2-1] (integer part) and
\* s[i2+1..i3-1] (fraction, if i3 > i2) from its first non-zero digit on.
NumDigits(s, i1, i2, i3) ==
    IF SkipZeros(s, i1, i2) < i2
    THEN (i2 - SkipZeros(s, i1, i2)) + (IF i3 > i2 THEN i3 - i2 - 1 ELSE 0)
    ELSE IF i3 > i2 THEN i3 - SkipZeros(s, i2 + 1, i3)
    ELSE 0

\* readFloat's result once the mantissa s[i1..i3-1] and the exponent e have
\* been read up to index end: at least one digit, and nothing left over.
\* The value read is mant * 10^e10; nd counts the digits of mant from its
\* first non-zero digit, dp is the position of the decimal point after them.
ReadEnd(s, i1, i2, i3, end, e) ==
    IF (i2 - i1) + (IF i3 > i2 THEN i3 - i2 - 1 ELSE 0) = 0 \/ end /= Len(s) + 1
    THEN [ok |-> FALSE]
    ELSE [ok |-> TRUE, neg |-> s[1] = ChMinus,
          nd |-> NumDigits(s, i1, i2, i3),
          e10 |-> e - (IF i3 > i2 THEN i3 - i2 - 1 ELSE 0),
          digs |-> <<i1, i2, i3>>]

\* The exponent digits s[i4..i5-1], after 'e' and the optional sign.
ReadExpDigits(s, i1, i2, i3, i4, i5) ==
    IF i5 = i4 THEN [ok |-> FALSE]
    ELSE ReadEnd(s, i1, i2, i3, i5,
                 (IF s[i4 - 1] = ChMinus THEN -1 ELSE 1) * ExpValue(s, i4, i5, 0))

ReadExpSign(s, i1, i2, i3, i4) ==
    ReadExpDigits(s, i1, i2, i3, i4, SkipDigits(s, i4))

\* The optional exponent at i3.
ReadExp(s, i1, i2, i3) ==
    IF i3 <= Len(s) /\ s[i3] \in {Che, ChE}
    THEN ReadExpSign(s, i1, i2, i3,
             IF i3 + 1 <= Len(s) /\ s[i3 + 1] \in {ChPlus, ChMinus} THEN i3 + 2 ELSE i3 + 1)
    ELSE ReadEnd(s, i1, i2, i3, i3, 0)

\* The optional '.' at i2 and the digits after it; i3 = i2 when there is none.
ReadFrac(s, i1, i2) ==
    ReadExp(s, i1, i2,
            IF i2 <= Len(s) /\ s[i2] = ChDot THEN SkipDigits(s, i2 + 1) ELSE i2)

\* strconv's readFloat on the whole of s (decimal form): optional sign,
\* digits with at most one '.', at least one digit, optional exponent
\* ('e'/'E', optional sign, at least one digit), and nothing after it.
readFloat(s) ==
    IF s = <<>> THEN [ok |-> FALSE]
    ELSE IF s[1] \in {ChPlus, ChMinus} THEN ReadFrac(s, 2, SkipDigits(s, 2))
    ELSE ReadFrac(s, 1, SkipDigits(s, 1))

\* The big number of the digits readFloat found (the '.' skipped).
Mantissa(s, i1, i2, i3) ==
    IF i3 > i2 THEN DigitsToBig(s, i2 + 1, i3, DigitsToBig(s, i1, i2, <<>>))
    ELSE DigitsToBig(s, i1, i2, <<>>)

MantBits == 52
ExpBias == 1023
MinExp == 0 - 1022
\* decimal.floatBits: a decimal point beyond these is an overflow / a zero.
MaxDecPoint == 310
MinDecPoint == 0 - 330

\* One step of binary long division by d: the next quotient bit ge is
\* shifted into m, and what is left of r is doubled.
DivStep(r, d, m, ge) ==
    [m |-> MulAdd(m, 2, IF ge THEN 1 ELSE 0),
     r |-> MulAdd(IF ge THEN Sub(r, d) ELSE r, 2, 0)]

\* k steps of binary long division by d, from the remainder r (r / d < 2)
\* and the quotient bits m found so far; the steps are halved so that the
\* nesting stays logarithmic in k.
RECURSIVE DivLoop(_, _, _, _)
RECURSIVE DivRest(_, _, _)
DivLoop(r, d, k, m) ==
    IF k = 0 THEN [m |-> m, r |-> r]
    ELSE IF k = 1 THEN DivStep(r, d, m, Cmp(r, d) >= 0)
    ELSE DivRest(DivLoop(r, d, k \div 2, m), d, k - k \div 2)

\* k more steps after h; all further quotient bits are 0 once nothing is left.
DivRest(h, d, k) ==
    IF h.r = <<>> THEN [m |-> Shl(h.m, k), r |-> <<>>]
    ELSE DivLoop(h.r, d, k, h.m)

\* floor(log2(p / q)), e0 being BitLen(p) - BitLen(q).
BinaryExponent(p, q, e0) ==
    IF e0 >= 0
    THEN (IF Cmp(p, Shl(q, e0)) >= 0 THEN e0 ELSE e0 - 1)
    ELSE (IF Cmp(Shl(p, 0 - e0), q) >= 0 THEN e0 ELSE e0 - 1)

\* The 64 bits for the mantissa m (0 .. 2^53) at binary exponent ee: the
\* exponent field is added at bit 52, so a mantissa of 2^53 carries into it;
\* ovf when the exponent field comes out all ones.
Assemble(w, ee) ==
    IF w[4] + (ee + ExpBias - 1) * 16 >= (2 * ExpBias + 1) * 16
    THEN [ovf |-> TRUE, bits |-> ZeroWord]
    ELSE [ovf |-> FALSE, bits |-> [w EXCEPT ![4] = @ + (ee + ExpBias - 1) * 16]]

\* Round to nearest, ties to even: dv.m is floor of the scaled quotient and
\* dv.r twice its remainder, to be compared with the divisor d.
RoundHalfEven(m, c) ==
    IF c > 0 \/ (c = 0 /\ m /= <<>> /\ m[1] % 2 = 1) THEN MulAdd(m, 1, 1) ELSE m

Rounded(dv, d, ee) == Assemble(U64(RoundHalfEven(dv.m, Cmp(dv.r, d))), ee)

\* a / d is p / q scaled so that its integer part is the 53-bit mantissa.
Divide(a, d, ee) == Rounded(DivLoop(a, d, MantBits + 1, <<>>), d, ee)

\* p / q at binary exponent ee (that of p / q, or MinExp for a subnormal).
FloatBitsAt(p, q, ee) ==
    Divide(IF MantBits - ee > 0 THEN Shl(p, MantBits - ee) ELSE p,
           Shl(q, (IF MantBits - ee < 0 THEN ee - MantBits ELSE 0) + MantBits),
           ee)

FloatBitsExp(p, q, e) ==
    IF e > ExpBias THEN [ovf |-> TRUE, bits |-> ZeroWord]
    ELSE FloatBitsAt(p, q, IF e < MinExp THEN MinExp ELSE e)

\* The IEEE-754 binary64 nearest to p / q (p > 0, q > 0), ties to even, as
\* math.Float64bits without the sign bit; ovf when it rounds past the
\* largest finite value.
FloatBits(p, q) == FloatBitsExp(p, q, BinaryExponent(p, q, BitLen(p) - BitLen(q)))

SignBit(neg, w) == IF neg THEN [w EXCEPT ![4] = @ + 32768] ELSE w

FloatResult(neg, f) ==
    IF f.ovf THEN [err |-> "range", bits |-> ZeroWord]
    ELSE [err |-> "nil", bits |-> SignBit(neg, f.bits)]

\* The value m * 10^e10 as a quotient of big numbers.
Convert(neg, m, e10) ==
    FloatResult(neg, FloatBits(IF e10 > 0 THEN MulAddPow10(m, e10) ELSE m,
                               IF e10 < 0 THEN Pow10(0 - e10) ELSE <<1>>))

\* What ParseFloat makes of readFloat's result r.
Converted(s, r) ==
    IF ~r.ok THEN [err |-> "syntax", bits |-> ZeroWord]
    ELSE IF r.nd = 0 THEN [err |-> "nil", bits |-> SignBit(r.neg, ZeroWord)]
    ELSE IF r.nd + r.e10 > MaxDecPoint THEN [err |-> "range", bits |-> ZeroWord]
    ELSE IF r.nd + r.e10 < MinDecPoint THEN [err |-> "nil", bits |-> SignBit(r.neg, ZeroWord)]
    ELSE Convert(r.neg, Mantissa(s, r.digs[1], r.digs[2], r.digs[3]), r.e10)

\* strconv.ParseFloat(s, 64) followed by math.Float64bits: "syntax" when s is
\* not a decimal floating-point literal, "range" when the value rounds to an
\* infinity, else the bits of the correctly rounded value (tiny values round
\* to a zero without error).
ParseFloat(s) == Converted(s, readFloat(s))

\* ------------------------------------------------------------ parseNumber
\* The string header over the same bytes: a view, no copy and no change.
unsafeBytesToString(b) == b

\* Mutant of ScanAborts: no look-ahead after '.' and '-'.
ScanAbortsNoLookahead(buf, i) == isNumberRune(buf[i]) = 0

\* The scan loop (for i, v := range buf), by 1-based index.  The loop
\* leaves at the first byte i that is unlisted (t = 0: abort), is a delimiter
\* (t = isEOVFlag: break) or is a '.' or '-' with no digit after it (abort);
\* every byte before that one is accepted: found is the union of their flags
\* and pos their count.
ScanAborts(buf, i) ==
    \/ isNumberRune(buf[i]) = 0
    \/ /\ isNumberRune(buf[i]) /= isEOVFlag
       /\ BitAnd(isNumberRune(buf[i]), isMustHaveDigitNext) > 0
       /\ (Len(buf) < i + 1 \/ BitAnd(isNumberRune(buf[i + 1]), isDigitFlag) = 0)

\* Mutant of ScanStop: a delimiter does not end the loop.
ScanStopNoBreak(buf) ==
    Min({i \in 1..Len(buf) : ScanAborts(buf, i)} \cup {Len(buf) + 1})

ScanStop(buf) ==
    Min({i \in 1..Len(buf) : isNumberRune(buf[i]) = isEOVFlag \/ ScanAborts(buf, i)}
        \cup {Len(buf) + 1})

Flags == {isPartOfNumberFlag, isFloatOnlyFlag, isMinusFlag, isEOVFlag, isDigitFlag,
          isMustHaveDigitNext}

\* The union (|) of a set of distinct flags.
RECURSIVE SumOf(_)
SumOf(S) == IF S = {} THEN 0 ELSE (CHOOSE y \in S : TRUE) + SumOf(S \ {CHOOSE y \in S : TRUE})

ScanResult(buf, stop) ==
    [abort |-> stop <= Len(buf) /\ ScanAborts(buf, stop),
     found |-> SumOf({f \in Flags :
                        \E i \in 1..(stop - 1) : BitAnd(isNumberRune(buf[i]), f) > 0}),
     pos |-> stop - 1]

Scan(buf) == ScanResult(buf, ScanStop(buf))

maxIntLen == 20

Invalid == [id |-> ZeroWord, val |-> ZeroWord]

FloatOutcome(floatTag, f) ==
    IF f.err = "nil" THEN [id |-> floatTag, val |-> f.bits] ELSE Invalid

\* The float path: the leading-zero rule for floats, then ParseFloat.
FloatPath(buf, pos, floatTag) ==
    IF pos > 1 /\ buf[1] = Ch0 /\ BitAnd(isNumberRune(buf[2]), isFloatOnlyFlag) = 0
    THEN Invalid
    ELSE FloatOutcome(floatTag, ParseFloat(unsafeBytesToString(SubSeq(buf, 1, pos))))

\* Mutant of RangeTag: the range error is not remembered.
RangeTagForgotten(err, floatTag) == floatTag

\* if errors.Is(err, strconv.ErrRange) { floatTag |= FloatOverflowedInteger }
RangeTag(err, floatTag) ==
    IF err = "range" THEN OrFlag(floatTag, FloatOverflowedInteger) ELSE floatTag

\* The unsigned attempt: a Uint result, or on to the float path.
UintOutcome(u64, floatTag) ==
    IF u64.err = "nil" THEN [done |-> TRUE, r |-> [id |-> TagWord(TagUint), val |-> U64(u64.n)]]
    ELSE [done |-> FALSE, floatTag |-> RangeTag(u64.err, floatTag)]

\* The signed attempt: an Integer result, or on to the unsigned attempt when
\* no minus sign was found, or on to the float path.
IntOutcome(tok, minus, i64) ==
    IF i64.err = "nil"
    THEN [done |-> TRUE, r |-> [id |-> TagWord(TagInteger), val |-> U64(i64.n)]]
    ELSE IF minus
    THEN [done |-> FALSE, floatTag |-> RangeTag(i64.err, TagWord(TagFloat))]
    ELSE UintOutcome(ParseUint(tok), RangeTag(i64.err, TagWord(TagFloat)))

\* The integer attempt, for a token without '.', 'e', 'E' of at most
\* maxIntLen bytes: done with the result r, or not done and the float path
\* follows with floatTag.
IntPath(buf, pos, minus) ==
    IF ~minus /\ pos > 1 /\ buf[1] = Ch0 THEN [done |-> TRUE, r |-> Invalid]
    ELSE IF minus /\ pos > 2 /\ buf[2] = Ch0 THEN [done |-> TRUE, r |-> Invalid]
    ELSE IntOutcome(unsafeBytesToString(SubSeq(buf, 1, pos)), minus,
                    ParseInt(unsafeBytesToString(SubSeq(buf, 1, pos))))

AfterIntPath(buf, pos, ip) ==
    IF ip.done THEN ip.r ELSE FloatPath(buf, pos, ip.floatTag)

\* parseNumber after the scan loop, sc being what the loop left.
Resolve(buf, sc) ==
    IF sc.abort \/ sc.pos = 0 THEN Invalid
    ELSE IF BitAnd(sc.found, isFloatOnlyFlag) = 0 /\ sc.pos <= maxIntLen
    THEN AfterIntPath(buf, sc.pos, IntPath(buf, sc.pos, BitAnd(sc.found, isMinusFlag) /= 0))
    ELSE FloatPath(buf, sc.pos,
                   IF BitAnd(sc.found, isFloatOnlyFlag) = 0
                   THEN OrFlag(TagWord(TagFloat), FloatOverflowedInteger)
                   ELSE TagWord(TagFloat))

parseNumber(buf) == Resolve(buf, Scan(buf))

\* ------------------------------------------------------------------ inputs
\* A byte the table does not list.
ChX == 120

\* Longest buffer of the exhaustive part of the input set.
MaxLen == 4

\* One byte of each class the scan tells apart: zero, non-zero digits, the
\* signs, the decimal point, the exponent marker, a delimiter, an unlisted byte.
Alphabet == {Ch0, Ch1, Ch9, ChMinus, ChPlus, ChDot, Che, ChComma, ChX}

ShortBufs == UNION {[1..n -> Alphabet] : n \in 0..MaxLen}

\* The decimal digits ds (values 0..9) as bytes.
Dec(ds) == [i \in 1..Len(ds) |-> Ch0 + ds[i]]

Repeat(c, k) == [i \in 1..k |-> c]

\* 2^63 - 1, 2^63, 2^63 + 1, 2^64 - 1, 2^64.
I64Max == Dec(<<9,2,2,3,3,7,2,0,3,6,8,5,4,7,7,5,8,0,7>>)
I64MaxP1 == Dec(<<9,2,2,3,3,7,2,0,3,6,8,5,4,7,7,5,8,0,8>>)
I64MaxP2 == Dec(<<9,2,2,3,3,7,2,0,3,6,8,5,4,7,7,5,8,0,9>>)
U64Max == Dec(<<1,8,4,4,6,7,4,4,0,7,3,7,0,9,5,5,1,6,1,5>>)
U64MaxP1 == Dec(<<1,8,4,4,6,7,4,4,0,7,3,7,0,9,5,5,1,6,1,6>>)
\* The largest finite double is 17976931348623157e292 (rounded to 17 digits).
DblMaxDigits == Dec(<<1,7,9,7,6,9,3,1,3,4,8,6,2,3,1,5,7>>)
DblOverDigits == Dec(<<1,7,9,7,6,9,3,1,3,4,8,6,2,3,1,5,9>>)

\* 1 followed by k zeros.
PowerOfTen(k) == <<Ch1>> \o Repeat(Ch0, k)

\* Literals around the limits of the three representations.
Literals ==
    {I64Max, I64MaxP1, I64MaxP2, U64Max, U64MaxP1}
    \cup {PowerOfTen(k) : k \in {18, 19, 20, 21}}
    \cup {DblMaxDigits \o <<Che>> \o Dec(<<2,9,2>>), DblOverDigits \o <<Che>> \o Dec(<<2,9,2>>)}
    \cup {<<Ch1, m>> \o Dec(ds) : m \in {Che, ChE}, ds \in {<<3,0,8>>, <<3,0,9>>, <<4,0,0>>}}
    \cup {<<Ch1, Che, ChMinus>> \o Dec(ds) : ds \in {<<3,0,8>>, <<3,2,4>>, <<4,0,0>>}}
    \cup {Dec(<<5>>) \o <<Che, ChMinus>> \o Dec(<<3,2,4>>), Dec(<<2>>) \o <<Che, ChMinus>> \o Dec(<<3,2,4>>)}
    \cup {Dec(<<0>>) \o <<ChDot>> \o Dec(<<1>>), Dec(<<1>>) \o <<ChDot>> \o Dec(<<5>>)}

Prefixes == {<<>>, <<ChMinus>>, <<ChPlus>>, <<Ch0>>, <<ChMinus, Ch0>>}

Suffixes == {<<>>, <<ChComma>>, <<ChX>>, <<ChSpace, ChX>>, <<ChDot>>, <<ChColon, Ch1>>}

LongBufs == {p \o l \o s : p \in Prefixes, l \in Literals, s \in Suffixes}

\* Integer literals of about 309 digits, on both sides of the largest double.
HugeLiterals ==
    {PowerOfTen(308), PowerOfTen(309),
     DblMaxDigits \o Repeat(Ch0, 292), DblOverDigits \o Repeat(Ch0, 292)}

HugeBufs ==
    HugeLiterals
    \cup {<<ChMinus>> \o PowerOfTen(k) : k \in {308, 309}}
    \cup {PowerOfTen(k) \o <<ChComma>> : k \in {308, 309}}

Bufs == ShortBufs \cup LongBufs \cup HugeBufs

\* ----------------------------------------------------------- state machine
VARIABLES
    buf,    \* the caller's buffer
    pc,     \* "call" before parseNumber has run on buf, "done" after
    id,     \* returned tag word
    val     \* returned value word

vars == <<buf, pc, id, val>>

Init ==
    /\ buf \in Bufs
    /\ pc = "call"
    /\ id = ZeroWord
    /\ val = ZeroWord

\* id, val := parseNumber(buf)
ParseNumber ==
    /\ pc = "call"
    /\ LET r == parseNumber(buf)
       IN  /\ id' = r.id
           /\ val' = r.val
    /\ pc' = "done"
    /\ UNCHANGED buf

Next == ParseNumber

Spec == Init /\ [][Next]_vars
\* ---------------------------------------------------------------- claims
\* The vocabulary of the claims, stated apart from the code's table.
DelimiterBytes == {ChComma, ChRBrace, ChRBracket, ChSpace, ChTab, ChCR, ChLF, ChColon}

NumberChars == (Ch0..Ch9) \cup {ChPlus, ChMinus, ChDot, Che, ChE}

FloatMarks == {ChDot, Che, ChE}

\* Index of the first delimiter of b (Len(b) + 1 if there is none).
TokenEnd(b) == Min({i \in 1..Len(b) : b[i] \in DelimiterBytes} \cup {Len(b) + 1})

\* The token: the bytes before the first delimiter or the end of the buffer.
Token(b) == SubSeq(b, 1, TokenEnd(b) - 1)

HasDelimiter(b) == TokenEnd(b) <= Len(b)

\* End of the run of digits of t that starts at i.
DigitRunEnd(t, i) == Min({j \in i..Len(t) : t[j] \notin Ch0..Ch9} \cup {Len(t) + 1})

\* Index of the first digit position of t after an optional '-'.
IntStart(t) == IF Len(t) >= 1 /\ t[1] = ChMinus THEN 2 ELSE 1

\* The JSON number grammar (RFC 8259): [-] int [. digits+] [(e|E) [+|-] digits+],
\* int being 0 or a non-zero digit followed by digits.
IsJSONNumber(t) ==
    LET n  == Len(t)
        i1 == IntStart(t)
        i2 == DigitRunEnd(t, i1)
        hasfrac == i2 <= n /\ t[i2] = ChDot
        i3 == IF hasfrac THEN DigitRunEnd(t, i2 + 1) ELSE i2
        hasexp == i3 <= n /\ t[i3] \in {Che, ChE}
        i4 == IF hasexp /\ i3 + 1 <= n /\ t[i3 + 1] \in {ChPlus, ChMinus}
              THEN i3 + 2 ELSE i3 + 1
        i5 == IF hasexp THEN DigitRunEnd(t, i4) ELSE i3
    IN  /\ i2 > i1
        /\ (t[i1] = Ch0 => i2 = i1 + 1)
        /\ (hasfrac => i3 > i2 + 1)
        /\ (hasexp => i5 > i4)
        /\ i5 = n + 1

\* A valid number with no '.', 'e' or 'E'.
IsIntegerLiteral(t) ==
    IsJSONNumber(t) /\ \A i \in 1..Len(t) : t[i] \notin FloatMarks

IsNegative(t) == Len(t) >= 1 /\ t[1] = ChMinus

\* The digits of an integer literal, without its sign.
Magnitude(t) == IF IsNegative(t) THEN Tail(t) ELSE t

\* a < b, a <= b for decimal digit strings without superfluous leading zeros.
DecLess(a, b) ==
    \/ Len(a) < Len(b)
    \/ /\ Len(a) = Len(b)
       /\ \E i \in 1..Len(a) : a[i] < b[i] /\ \A j \in 1..(i - 1) : a[j] = b[j]

DecLeq(a, b) == a = b \/ DecLess(a, b)

\* The value of the integer literal t lies in [-2^63, 2^63 - 1].
InSignedRange(t) ==
    IF IsNegative(t) THEN DecLeq(Magnitude(t), I64MaxP1) ELSE DecLeq(Magnitude(t), I64Max)

\* 2^63 - 1 < t <= 2^64 - 1, t without a minus sign.
InUnsignedOnlyRange(t) ==
    ~IsNegative(t) /\ DecLess(I64Max, t) /\ DecLeq(t, U64Max)

\* The value of t is above 2^64 - 1, or negative and below -2^63.
BeyondIntegerRanges(t) ==
    IF IsNegative(t) THEN DecLess(I64MaxP1, Magnitude(t)) ELSE DecLess(U64Max, t)

\* Quotient and remainder of a 64-bit word by 10, the high limb first.
DivMod10(w) ==
    LET t4 == w[4]
        t3 == (t4 % 10) * LimbBase + w[3]
        t2 == (t3 % 10) * LimbBase + w[2]
        t1 == (t2 % 10) * LimbBase + w[1]
    IN  [q |-> <<t1 \div 10, t2 \div 10, t3 \div 10, t4 \div 10>>, r |-> t1 % 10]

\* The decimal digits (as bytes) of a 64-bit word, without leading zeros.
RECURSIVE DecimalOf(_)
DecimalOf(w) ==
    LET d == DivMod10(w)
    IN  IF d.q = ZeroWord THEN <<Ch0 + d.r>>
        ELSE Append(DecimalOf(d.q), Ch0 + d.r)

\* The word of which w is the two's complement: 2^64 - w modulo 2^64.
NegateWord(w) == IF w = ZeroWord THEN w ELSE U64(Sub(<<0, 0, 0, 0, 1>>, Trim(w)))

\* The tag words the claims name, written out limb by limb: the tag sits in
\* the top byte of the most significant limb, the overflow flag in bit 0.
TagAtOffset(tag) == <<0, 0, 0, tag * Pow2(JSONTAGOFFSET - 3 * LimbBits)>>

IntegerTag == TagAtOffset(TagInteger)
UintTag == TagAtOffset(TagUint)
FloatTag == TagAtOffset(TagFloat)
FloatOverflowTag == <<FloatOverflowedInteger, 0, 0, TagFloat * Pow2(JSONTAGOFFSET - 3 * LimbBits)>>

IsSentinel == id = ZeroWord /\ val = ZeroWord

Done == pc = "done"

\* C1: every buffer whose token is a valid JSON number resolves to something
\* other than the sentinel (0, 0), whatever its length or exponent.
C1_ValidNeverSentinel ==
    (Done /\ IsJSONNumber(Token(buf))) => ~IsSentinel

\* C2: every buffer whose token is not a valid JSON number resolves to the
\* sentinel (0, 0).
C2_InvalidIsSentinel ==
    (Done /\ ~IsJSONNumber(Token(buf))) => IsSentinel

\* C3: a valid integer literal in the signed 64-bit range resolves to Integer
\* with the two's-complement pattern of its value; one without a minus sign in
\* (i64::MAX, u64::MAX] resolves to Uint with its value; a literal with a minus
\* sign is never Uint and one in the signed range never Uint or Float.
C3_IntegerExact ==
    (Done /\ IsIntegerLiteral(Token(buf))) =>
        LET t == Token(buf)
        IN  /\ InSignedRange(t) =>
                  /\ id = IntegerTag
                  /\ DecimalOf(IF IsNegative(t) THEN NegateWord(val) ELSE val) = Magnitude(t)
                  /\ (IsNegative(t) /\ val /= ZeroWord => val[4] >= 32768)
                  /\ (~IsNegative(t) => val[4] < 32768)
            /\ InUnsignedOnlyRange(t) => (id = UintTag /\ DecimalOf(val) = t)
            /\ IsNegative(t) => id /= UintTag
            /\ InSignedRange(t) => id \notin {UintTag, FloatTag, FloatOverflowTag}

C3_Witness ==
    Done /\ buf = I64MaxP1 /\ id = UintTag /\ val = <<0, 0, 0, 32768>>

\* C4: a valid integer literal above u64::MAX, or negative and below i64::MIN,
\* resolves to a Float whose tag word carries FloatOverflowedInteger, never to
\* the sentinel, whatever its length.
C4_OverflowIsFloat ==
    (Done /\ IsIntegerLiteral(Token(buf)) /\ BeyondIntegerRanges(Token(buf)))
        => id = FloatOverflowTag

\* C5: a buffer that contains a delimiter resolves exactly as its prefix before
\* the first delimiter does.
C5_DelimiterStop ==
    (Done /\ HasDelimiter(buf)) => [id |-> id, val |-> val] = parseNumber(Token(buf))

C5_Witness ==
    Done /\ buf = <<Ch1, Ch9, ChComma, ChX>> /\ id = IntegerTag /\ val = <<19, 0, 0, 0>>

\* Index of the first byte of b that is not a number character.
NumberEnd(b) == Min({i \in 1..Len(b) : b[i] \notin NumberChars} \cup {Len(b) + 1})

\* C6: a valid number followed by one or more bytes that are not number
\* characters resolves as the number alone does.
C6_TrailingIgnored ==
    (/\ Done
     /\ NumberEnd(buf) <= Len(buf)
     /\ \A j \in NumberEnd(buf)..Len(buf) : buf[j] \notin NumberChars
     /\ IsJSONNumber(SubSeq(buf, 1, NumberEnd(buf) - 1)))
        => [id |-> id, val |-> val] = parseNumber(SubSeq(buf, 1, NumberEnd(buf) - 1))

\* The digits of t after an optional '-' start with '0' and go on.
HasLeadingZero(t) ==
    LET i1 == IntStart(t)
    IN  i1 <= Len(t) /\ t[i1] = Ch0 /\ DigitRunEnd(t, i1) >= i1 + 2

\* C7: a token whose integer part starts with '0' and has a further digit is
\* rejected, integer-shaped or float-shaped, with or without a minus sign; a
\* valid number whose integer part is exactly "0" is accepted.
C7_LeadingZeroRejected ==
    Done =>
        /\ HasLeadingZero(Token(buf)) => IsSentinel
        /\ (IsJSONNumber(Token(buf)) /\ Token(buf)[IntStart(Token(buf))] = Ch0)
               => ~IsSentinel

\* C8: a '-' or '.' before the first delimiter that ends the buffer or is not
\* followed by a digit, and a token that ends in 'e' or 'E', give the sentinel.
C8_DanglingRejected ==
    Done =>
        LET t == Token(buf)
        IN  /\ (\E i \in 1..Len(t) :
                   /\ buf[i] \in {ChMinus, ChDot}
                   /\ (i = Len(buf) \/ buf[i + 1] \notin Ch0..Ch9)) => IsSentinel
            /\ (Len(t) >= 1 /\ t[Len(t)] \in {Che, ChE}) => IsSentinel

C8_Witness ==
    Done /\ buf = <<Ch1, ChDot, ChComma, Ch1>> /\ IsSentinel

\* C9: the tag word carries FloatOverflowedInteger exactly when the result is a
\* Float and the token has no '.', 'e' or 'E'.
C9_OverflowFlag ==
    Done =>
        ((id[1] % 2 = 1) <=>
            (/\ id \in {FloatTag, FloatOverflowTag}
             /\ \A i \in 1..Len(Token(buf)) : Token(buf)[i] \notin FloatMarks))

C9_Witness ==
    Done /\ buf = <<ChMinus>> \o I64MaxP2 /\ id = FloatOverflowTag

\* C10: the result is the sentinel (0, 0) or carries one of the four non-zero
\* tag words; a zero tag word never comes with a non-zero value word, and a
\* resolved number whose value word is 0 still has a non-zero tag word.
C10_SoleSentinel ==
    Done =>
        /\ IsSentinel \/ id \in {IntegerTag, UintTag, FloatTag, FloatOverflowTag}
        /\ ZeroWord \notin {IntegerTag, UintTag, FloatTag, FloatOverflowTag}
        /\ id = ZeroWord => val = ZeroWord
        /\ Token(buf) \in {<<Ch0>>, <<ChMinus, Ch0>>, <<Ch0, ChDot, Ch0>>}
               => (val = ZeroWord /\ id /= ZeroWord)

C10_Witness ==
    Done /\ buf = <<Ch0, ChDot, Ch0>> /\ id = FloatTag /\ val = ZeroWord
====
